---------------------------- MODULE Spec2Model ----------------------------
(***************************************************************************)
(* Model of streamlit_app.py: the cached classifier loader, the GradCAM    *)
(* explainer (hook registration and __call__) and the script body that     *)
(* Streamlit re-executes, per browser session, on every interaction.       *)
(*                                                                         *)
(* Numbers are exact: a tensor entry is an integer numerator over a        *)
(* positive denominator that is common to the whole tensor, so floating    *)
(* point rounding is not modelled.  The classifier is a small network of   *)
(* the same shape as the one load_model builds: a feature extractor whose  *)
(* last stage is the target layer, global average pooling, and a linear    *)
(* layer with one row per class.                                           *)
(***************************************************************************)
EXTENDS Integers, Sequences, FiniteSets, TLC

(***************************************************************************)
(* Bounds of the model.                                                    *)
(***************************************************************************)
\* script executions (all sessions together)
MaxRuns == 2
\* calls of grad_cam made directly, outside the script's own line 178
MaxCalls == 2
\* side of the square tensor the transform produces (224 in the source)
InputSide == 3
\* total stride of the feature extractor up to the target layer
Stride == 2

(***************************************************************************)
(* Program constants.                                                      *)
(***************************************************************************)
\* num_classes
NumClasses == 4
\* class_idx=None
NoClass == -1
\* number of times 1e-8 is added to the denominator of the normalisation
EpsTerms == 1

Sessions == {1, 2}
Classes == 0 .. (NumClasses - 1)
Channels == {1, 2}

(***************************************************************************)
(* Arithmetic helpers.                                                     *)
(***************************************************************************)
Min2(a, b) == IF a < b THEN a ELSE b
Max2(a, b) == IF a > b THEN a ELSE b
SetMax(S) == CHOOSE m \in S : \A y \in S : y <= m
SetMin(S) == CHOOSE m \in S : \A y \in S : m <= y
CeilDiv(a, b) == (a + b - 1) \div b

RECURSIVE SumSeq(_)
SumSeq(s) == IF s = << >> THEN 0 ELSE Head(s) + SumSeq(Tail(s))

Rows(g) == Len(g)
Cols(g) == Len(g[1])
GridSum(g) == SumSeq([i \in 1 .. Rows(g) |-> SumSeq(g[i])])
GridValues(g) == {g[i][j] : i \in 1 .. Rows(g), j \in 1 .. Cols(g)}

(***************************************************************************)
(* Images and input tensors.                                               *)
(***************************************************************************)
Images == {"black", "diag"}

\* transforms.Compose: every image becomes an InputSide x InputSide tensor
Transform(image) ==
    [i \in 1 .. InputSide |-> [j \in 1 .. InputSide |->
        IF image = "black" THEN 0
        ELSE IF i # j THEN 0
        ELSE IF i = 1 THEN 2 ELSE 1]]

\* tensors a direct caller of GradCAM.__call__ may pass: the transformed
\* images and tensors of other spatial sizes (a row, a column, one pixel)
Tensors ==
    {Transform(im) : im \in Images}
        \cup {<< <<0, 1, 2>> >>, << <<1>>, <<0>> >>, << <<1>> >>}

(***************************************************************************)
(* The classifier: feature extractor, target layer, average pool, fc.      *)
(***************************************************************************)
Relu(v) == IF v > 0 THEN v ELSE 0

Pool(x, i, j) ==
    SetMax({x[r][c] : r \in ((i - 1) * Stride + 1) .. Min2(i * Stride, Rows(x)),
                      c \in ((j - 1) * Stride + 1) .. Min2(j * Stride, Cols(x))})

\* output of the target layer (model.layer4[-1]) for input x: one grid per
\* channel, of the input's size divided by the stride; values are post-ReLU
LayerOutput(x) ==
    [c \in Channels |->
        [i \in 1 .. CeilDiv(Rows(x), Stride) |->
            [j \in 1 .. CeilDiv(Cols(x), Stride) |->
                IF c = 1 THEN Relu(Pool(x, i, j))
                         ELSE Relu(1 - Pool(x, i, j))]]]

\* model.fc = nn.Linear(num_features, num_classes): row k+1 is class k
FcWeight == << <<1, 0>>, <<0, 1>>, <<1, 1>>, <<1, -1>> >>

\* per-class scores of the head on activations act: average pool then fc.
\* The numerators are over the common denominator Rows*Cols of the pool.
Scores(act) ==
    [k \in Classes |->
        SumSeq([c \in 1 .. Cardinality(Channels) |->
                    FcWeight[k + 1][c] * GridSum(act[c])])]

\* scores when the target layer's output does not feed the model output
ScoresOffPath == [k \in Classes |-> 0]

\* Argmax with ties resolved towards the highest index
ArgmaxLast(out) ==
    CHOOSE k \in Classes :
        /\ \A j \in Classes : out[j] <= out[k]
        /\ \A j \in Classes : j > k => out[j] < out[k]

\* output.argmax(dim=1).item(): the first index holding the maximum
Argmax(out) ==
    CHOOSE k \in Classes :
        /\ \A j \in Classes : out[j] <= out[k]
        /\ \A j \in Classes : j < k => out[j] < out[k]

\* gradient of the score of class k with respect to the target layer's
\* output act: FcWeight[k][c] / (Rows*Cols) at every position
GradOutput(act, k) ==
    [val |-> [c \in Channels |->
                [i \in 1 .. Rows(act[c]) |->
                    [j \in 1 .. Cols(act[c]) |-> FcWeight[k + 1][c]]]],
     den |-> Rows(act[1]) * Cols(act[1])]


(***************************************************************************)
(* GradCAM.__call__, lines 95-106, as operators on the two snapshots.      *)
(* A snapshot is [pass, val, den]: the forward evaluation it belongs to    *)
(* (0: the attribute is still None), the values and their denominator.     *)
(***************************************************************************)
NoSnapshot == [pass |-> 0, val |-> << >>, den |-> 1]

\* self.gradients.mean(dim=[2, 3], keepdim=True): one weight per channel,
\* numerators over Rows * Cols * gradients.den
Weights(gradients) == [c \in Channels |-> GridSum(gradients.val[c])]

\* torch.relu((weights * self.activations).sum(dim=1, keepdim=True)); the
\* weights have shape 1 x C x 1 x 1 and broadcast over any activation size
RawMap(gradients, activations) ==
    [i \in 1 .. Rows(activations.val[1]) |->
        [j \in 1 .. Cols(activations.val[1]) |->
            Relu(SumSeq([c \in 1 .. Cardinality(Channels) |->
                    Weights(gradients)[c] * activations.val[c][i][j]]))]]

\* bilinear, align_corners=False: the source coordinate of output index o
\* (1-based) is (o - 0.5) * in / out - 0.5, clamped at 0; SrcNum is that
\* coordinate times 2 * out
SrcNum(o, in, out) == Max2(0, (2 * o - 1) * in - out)
SrcLow(o, in, out) == SrcNum(o, in, out) \div (2 * out)
SrcHigh(o, in, out) ==
    SrcLow(o, in, out) + (IF SrcLow(o, in, out) < in - 1 THEN 1 ELSE 0)
SrcLambda(o, in, out) == SrcNum(o, in, out) % (2 * out)

\* torch.nn.functional.interpolate(m, size=(H, W), mode='bilinear',
\* align_corners=False); the result's numerators are over 4 * H * W
Interpolate(m, H, W) ==
    [i \in 1 .. H |-> [j \in 1 .. W |->
        LET r0 == SrcLow(i, Rows(m), H) + 1
            r1 == SrcHigh(i, Rows(m), H) + 1
            c0 == SrcLow(j, Cols(m), W) + 1
            c1 == SrcHigh(j, Cols(m), W) + 1
            ly == SrcLambda(i, Rows(m), H)
            lx == SrcLambda(j, Cols(m), W)
        IN  (2 * H - ly) * (2 * W - lx) * m[r0][c0]
              + (2 * H - ly) * lx * m[r0][c1]
              + ly * (2 * W - lx) * m[r1][c0]
              + ly * lx * m[r1][c1]]]

\* .squeeze(): every dimension of size 1 is dropped
Squeeze(shape) == SelectSeq(shape, LAMBDA d : d # 1)

\* Normalize without the 1e-8 term
NormalizeNoEps(m) ==
    LET lo == SetMin(GridValues(m))
        hi == SetMax(GridValues(m))
    IN  [i \in 1 .. Rows(m) |-> [j \in 1 .. Cols(m) |->
            [num |-> m[i][j] - lo, span |-> hi - lo, eps |-> 0]]]

\* (m - m.min()) / (m.max() - m.min() + 1e-8): an entry is the fraction
\* num / (span + eps * 1e-8), eps counting the 1e-8 terms of the denominator
Normalize(m) ==
    LET lo == SetMin(GridValues(m))
        hi == SetMax(GridValues(m))
    IN  [i \in 1 .. Rows(m) |-> [j \in 1 .. Cols(m) |->
            [num |-> m[i][j] - lo, span |-> hi - lo, eps |-> EpsTerms]]]

NoHeatmap == [ok |-> FALSE, shape |-> << >>, data |-> << >>]

\* lines 95-106: the heatmap for input x from the stored snapshots; data
\* holds the entries row by row, shape is the shape of the returned array
GradCamMap(gradients, activations, x) ==
    [ok |-> TRUE,
     shape |-> Squeeze(<<1, 1, Rows(x), Cols(x)>>),
     data |-> Normalize(Interpolate(RawMap(gradients, activations),
                                    Rows(x), Cols(x)))]

(***************************************************************************)
(* The hooks of _register_hooks.                                           *)
(***************************************************************************)
\* a forward hook that stores only the first output it sees
ForwardHookKeepFirst(e, out) ==
    IF e.activations.pass = 0 THEN [e EXCEPT !.activations = out] ELSE e

\* a backward hook that stores only the first gradient it sees
BackwardHookKeepFirst(e, grad) ==
    IF e.gradients.pass = 0 THEN [e EXCEPT !.gradients = grad] ELSE e

\* a backward hook that adds the gradient to the stored one, as .grad
\* buffers do, when the two have the same shape
BackwardHookAccumulate(e, grad) ==
    IF /\ e.gradients.pass # 0
       /\ e.gradients.den = grad.den
       /\ Rows(e.gradients.val[1]) = Rows(grad.val[1])
       /\ Cols(e.gradients.val[1]) = Cols(grad.val[1])
      THEN [e EXCEPT !.gradients =
                [pass |-> grad.pass,
                 val |-> [c \in Channels |->
                            [i \in 1 .. Rows(grad.val[c]) |->
                                [j \in 1 .. Cols(grad.val[c]) |->
                                    e.gradients.val[c][i][j]
                                        + grad.val[c][i][j]]]],
                 den |-> grad.den]]
      ELSE [e EXCEPT !.gradients = grad]

\* forward_hook: self.activations = output.detach()
ForwardHook(e, out) == [e EXCEPT !.activations = out]

\* backward_hook: self.gradients = grad_output[0].detach()
BackwardHook(e, grad) == [e EXCEPT !.gradients = grad]

\* registration that replaces the layer's hooks instead of adding one
RegisterHookReplacing(hooks, id) == <<id>>

\* register_forward_hook / register_backward_hook: a hook is added to the
\* layer's list; nothing ever removes one
RegisterHook(hooks, id) == Append(hooks, id)

\* GradCAM.__init__: gradients and activations start as None
NewExplainer(n) ==
    [activations |-> NoSnapshot, gradients |-> NoSnapshot, regAt |-> n]


(***************************************************************************)
(* State.                                                                  *)
(***************************************************************************)
VARIABLES
    fileState,   \* the parameter file: "ok", "absent" or "corrupt"
    serialized,  \* callers hold a mutex around every use of the classifier
    dynamic,     \* the classifier's graph depends on the input
    cache,       \* st.cache_resource entry of load_model: "unset"/"model"/"none"
    explainers,  \* every GradCAM instance constructed so far
    fwdHooks,    \* forward hooks on the target layer (explainer indices)
    bwdHooks,    \* backward hooks on the target layer (explainer indices)
    paramGrad,   \* classifier gradient buffers: backward passes accumulated
    npass,       \* forward evaluations of the classifier so far
    nruns,       \* script executions started so far
    ncalls,      \* direct calls of grad_cam so far
    lastOut,     \* target layer output of the most recent forward evaluation
    sess         \* per session: position in the script and its names

vars == <<fileState, serialized, dynamic, cache, explainers, fwdHooks,
          bwdHooks, paramGrad, npass, nruns, ncalls, lastOut, sess>>

NoGraph == [pass |-> 0, nhooks |-> 0, onPath |-> FALSE, act |-> << >>]
NoOutput == [k \in Classes |-> 0]
NoGrad == [k \in Classes |-> 0]

\* the names of one script execution before any line has run
FreshRun ==
    [pc |-> "idle", model |-> FALSE, grad_cam |-> 0, image |-> "",
     shown |-> FALSE, reported |-> FALSE, input_tensor |-> << >>,
     xgrad |-> 0, pred_idx |-> NoClass, class_idx |-> NoClass,
     target |-> NoClass, output |-> NoOutput, graph |-> NoGraph,
     fired |-> FALSE, heatmap |-> NoHeatmap, error |-> ""]

InitWith(dyn) ==
    /\ fileState \in {"ok", "absent", "corrupt"}
    /\ serialized \in BOOLEAN
    /\ dynamic = dyn
    /\ cache = "unset"
    /\ explainers = << >>
    /\ fwdHooks = << >>
    /\ bwdHooks = << >>
    /\ paramGrad = NoGrad
    /\ npass = 0
    /\ nruns = 0
    /\ ncalls = 0
    /\ lastOut = NoSnapshot
    /\ sess = [s \in Sessions |-> FreshRun]

\* the application: resnet50, whose layer4[-1] always feeds the output
Init == InitWith(FALSE)

\* a classifier whose graph bypasses the target layer for some inputs
InitDynamic == InitWith(TRUE)

(***************************************************************************)
(* Evaluating the classifier.                                              *)
(***************************************************************************)
Range(f) == {f[i] : i \in DOMAIN f}

\* whether the target layer's output feeds the model output for input x:
\* always for a static graph; the dynamic classifier skips it for an
\* all-zero input
OnPath(x) == (~dynamic) \/ (\E v \in GridValues(x) : v # 0)

\* self.model(x): the per-class scores
ModelOutput(x) ==
    IF OnPath(x) THEN Scores(LayerOutput(x)) ELSE ScoresOffPath

\* only the hook registered last runs
RunForwardHooksLastOnly(ex, hooks, out) ==
    [i \in DOMAIN ex |->
        IF hooks # << >> /\ i = hooks[Len(hooks)]
            THEN ForwardHook(ex[i], out) ELSE ex[i]]

\* the forward hooks of the layer run on its output, whoever evaluates
RunForwardHooks(ex, hooks, out) ==
    [i \in DOMAIN ex |->
        IF i \in Range(hooks) THEN ForwardHook(ex[i], out) ELSE ex[i]]

\* the backward hooks attached to the graph when it was built run on the
\* gradient of the layer's output
RunBackwardHooks(ex, hooks, n, grad) ==
    [i \in DOMAIN ex |->
        IF \E h \in 1 .. n : hooks[h] = i
            THEN BackwardHook(ex[i], grad) ELSE ex[i]]

\* a forward evaluation of the classifier on x
EvalForward(x) ==
    LET out == [pass |-> npass + 1, val |-> LayerOutput(x), den |-> 1]
    IN  /\ npass' = npass + 1
        /\ lastOut' = out
        /\ explainers' = RunForwardHooks(explainers, fwdHooks, out)

InFlight == {"call87", "call92", "call95"}

\* the caller-side mutex: with it, no classifier evaluation starts while
\* another session's explanation is in flight
MayEvaluate(s) ==
    serialized => \A t \in Sessions \ {s} : sess[t].pc \notin InFlight

(***************************************************************************)
(* The script, one action per step.                                        *)
(***************************************************************************)
\* Streamlit starts (or re-runs) the script for a session
Rerun(s) ==
    /\ sess[s].pc \in {"idle", "end"}
    /\ nruns < MaxRuns
    /\ nruns' = nruns + 1
    /\ sess' = [sess EXCEPT ![s] = [FreshRun EXCEPT !.pc = "load"]]
    /\ UNCHANGED <<fileState, serialized, dynamic, cache, explainers,
                   fwdHooks, bwdHooks, paramGrad, npass, ncalls, lastOut>>

\* load_model's body (lines 29-47): "model" or "none" (None, after st.error)
LoadResult == IF fileState = "ok" THEN "model" ELSE "none"

\* line 49: model = load_model(), through st.cache_resource
LoadModel(s) ==
    /\ sess[s].pc = "load"
    /\ LET got == IF cache = "unset" THEN LoadResult ELSE cache
       IN  /\ cache' = got
           /\ sess' = [sess EXCEPT ![s].model = (got = "model"),
                                   ![s].reported = (got = "none"),
                                   ![s].pc = "construct"]
    /\ UNCHANGED <<fileState, serialized, dynamic, explainers, fwdHooks,
                   bwdHooks, paramGrad, npass, nruns, ncalls, lastOut>>

\* lines 109-111: if model: grad_cam = GradCAM(model, model.layer4[-1])
Construct(s) ==
    /\ sess[s].pc = "construct"
    /\ IF sess[s].model
         THEN /\ explainers' = Append(explainers, NewExplainer(npass))
              /\ fwdHooks' = RegisterHook(fwdHooks, Len(explainers) + 1)
              /\ bwdHooks' = RegisterHook(bwdHooks, Len(explainers) + 1)
              /\ sess' = [sess EXCEPT ![s].grad_cam = Len(explainers) + 1,
                                      ![s].pc = "select"]
         ELSE /\ sess' = [sess EXCEPT ![s].pc = "select"]
              /\ UNCHANGED <<explainers, fwdHooks, bwdHooks>>
    /\ UNCHANGED <<fileState, serialized, dynamic, cache, paramGrad, npass,
                   nruns, ncalls, lastOut>>

\* lines 127-158: an image is uploaded or a sample chosen, and displayed;
\* or nothing is (no upload yet, no sample files)
Select(s) ==
    /\ sess[s].pc = "select"
    /\ \E im \in Images \cup {""} :
         sess' = [sess EXCEPT ![s].image = im,
                              ![s].shown = (im # ""),
                              ![s].pc = "guard"]
    /\ UNCHANGED <<fileState, serialized, dynamic, cache, explainers,
                   fwdHooks, bwdHooks, paramGrad, npass, nruns, ncalls,
                   lastOut>>

\* the guard without its "and model"
ProcessGuardImageOnly(r) == r.image # ""

\* line 162: if 'image' in locals() and model
ProcessGuard(r) == r.image # "" /\ r.model

\* lines 162-174: the guard, the transform and the prediction pass
Predict(s) ==
    /\ sess[s].pc = "guard"
    /\ IF ~ProcessGuard(sess[s])
         THEN /\ sess' = [sess EXCEPT ![s].pc = "end"]
              /\ UNCHANGED <<explainers, npass, lastOut>>
         ELSE IF ~sess[s].model
         THEN \* model(input_tensor) with model None
              /\ sess' = [sess EXCEPT ![s].error = "TypeError",
                                      ![s].pc = "end"]
              /\ UNCHANGED <<explainers, npass, lastOut>>
         ELSE /\ MayEvaluate(s)
              /\ LET x == Transform(sess[s].image)
                 IN  /\ EvalForward(x)
                     /\ sess' = [sess EXCEPT
                            ![s].input_tensor = x,
                            ![s].xgrad = 0,
                            ![s].pred_idx = Argmax(ModelOutput(x)),
                            ![s].class_idx = Argmax(ModelOutput(x)),
                            ![s].pc = "call87"]
    /\ UNCHANGED <<fileState, serialized, dynamic, cache, fwdHooks,
                   bwdHooks, paramGrad, nruns, ncalls>>


\* lines 88-89: the class whose score is back-propagated
SelectClass(class_idx, output) ==
    IF class_idx = NoClass THEN Argmax(output) ELSE class_idx

\* line 178 and lines 84-87: grad_cam is looked up and called; the input is
\* marked as requiring gradient, model.zero_grad(), the forward pass
CallForward(s) ==
    /\ sess[s].pc = "call87"
    /\ IF sess[s].grad_cam = 0
         THEN \* the name grad_cam was never bound
              /\ sess' = [sess EXCEPT ![s].error = "NameError",
                                      ![s].pc = "end"]
              /\ UNCHANGED <<explainers, npass, lastOut, paramGrad>>
         ELSE LET x == sess[s].input_tensor
              IN  /\ paramGrad' = NoGrad
                  /\ EvalForward(x)
                  /\ sess' = [sess EXCEPT
                         ![s].output = ModelOutput(x),
                         ![s].graph = [pass |-> npass + 1,
                                       nhooks |-> Len(bwdHooks),
                                       onPath |-> OnPath(x),
                                       act |-> LayerOutput(x)],
                         ![s].pc = "call92"]
    /\ UNCHANGED <<fileState, serialized, dynamic, cache, fwdHooks,
                   bwdHooks, nruns, ncalls>>

\* lines 88-92: the class is chosen and its score back-propagated through
\* the graph of this call's forward pass
CallBackward(s) ==
    /\ sess[s].pc = "call92"
    /\ LET g == sess[s].graph
           k == SelectClass(sess[s].class_idx, sess[s].output)
           grad == [pass |-> g.pass,
                    val |-> GradOutput(g.act, k).val,
                    den |-> GradOutput(g.act, k).den]
       IN  /\ explainers' =
                 IF g.onPath
                   THEN RunBackwardHooks(explainers, bwdHooks, g.nhooks, grad)
                   ELSE explainers
           /\ paramGrad' = [paramGrad EXCEPT ![k] = @ + 1]
           /\ sess' = [sess EXCEPT ![s].target = k,
                                   ![s].xgrad = @ + 1,
                                   ![s].fired = g.onPath,
                                   ![s].pc = "call95"]
    /\ UNCHANGED <<fileState, serialized, dynamic, cache, fwdHooks,
                   bwdHooks, npass, nruns, ncalls, lastOut>>

\* lines 95-106: the heatmap from self.gradients and self.activations;
\* self.gradients.mean on None raises AttributeError
CallCompute(s) ==
    /\ sess[s].pc = "call95"
    /\ LET e == explainers[sess[s].grad_cam]
       IN  IF e.gradients.pass = 0 \/ e.activations.pass = 0
             THEN sess' = [sess EXCEPT ![s].error = "AttributeError",
                                       ![s].pc = "end"]
             ELSE sess' = [sess EXCEPT
                      ![s].heatmap = GradCamMap(e.gradients, e.activations,
                                                sess[s].input_tensor),
                      ![s].pc = "end"]
    /\ UNCHANGED <<fileState, serialized, dynamic, cache, explainers,
                   fwdHooks, bwdHooks, paramGrad, npass, nruns, ncalls,
                   lastOut>>

\* a caller other than line 178 calls grad_cam(x, class_idx) on the
\* session's explainer; passing the tensor of the previous call again
\* passes the same tensor object, whose .grad keeps accumulating
DirectCall(s) ==
    /\ sess[s].pc = "end"
    /\ sess[s].grad_cam # 0
    /\ ncalls < MaxCalls
    /\ ncalls' = ncalls + 1
    /\ \E x \in Tensors, ci \in Classes \cup {NoClass} :
         sess' = [sess EXCEPT
                    ![s].xgrad = IF x = sess[s].input_tensor THEN @ ELSE 0,
                    ![s].input_tensor = x,
                    ![s].class_idx = ci,
                    ![s].target = NoClass,
                    ![s].fired = FALSE,
                    ![s].heatmap = NoHeatmap,
                    ![s].error = "",
                    ![s].pc = "call87"]
    /\ UNCHANGED <<fileState, serialized, dynamic, cache, explainers,
                   fwdHooks, bwdHooks, paramGrad, npass, nruns, lastOut>>

\* one step of the script for session s
Script(s) ==
    \/ Rerun(s)
    \/ LoadModel(s)
    \/ Construct(s)
    \/ Select(s)
    \/ Predict(s)
    \/ CallForward(s)
    \/ CallBackward(s)
    \/ CallCompute(s)

\* the application: every browser session runs the script in its own
\* thread, against the one cached classifier
Next == \E s \in Sessions : Script(s)

Spec == Init /\ [][Next]_vars

\* one thread using the explainer: the script and direct calls of grad_cam
NextApi == Script(1) \/ DirectCall(1)

SpecApi == Init /\ [][NextApi]_vars

SpecDynamic == InitDynamic /\ [][NextApi]_vars


(***************************************************************************)
(* Properties.                                                             *)
(***************************************************************************)
\* the entries of a returned heatmap
Entries(h) ==
    {h.data[i][j] : i \in 1 .. Rows(h.data), j \in 1 .. Cols(h.data)}

\* the fraction num / (span + eps * 1e-8) has a non-zero denominator
Defined(v) == v.span >= 0 /\ (v.span > 0 \/ v.eps > 0)

\* 0 <= num / (span + eps * 1e-8) <= 1, for a defined fraction
InUnitInterval(v) == 0 <= v.num /\ v.num <= v.span

\* the explainer a session's grad_cam names
Explainer(s) == explainers[sess[s].grad_cam]

\* the heatmap of a fresh explainer for input x and class k
FreshMap(x, k) ==
    GradCamMap([pass |-> 1,
                val |-> GradOutput(LayerOutput(x), k).val,
                den |-> GradOutput(LayerOutput(x), k).den],
               [pass |-> 1, val |-> LayerOutput(x), den |-> 1],
               x)

\* C1: every value of a returned heatmap is defined (its denominator is
\* not zero) and lies in [0,1], also when the upsampled map is constant.
C1_HeatmapInUnitInterval ==
    \A s \in Sessions :
        sess[s].heatmap.ok =>
            \A v \in Entries(sess[s].heatmap) : Defined(v) /\ InUnitInterval(v)

\* C1 witness: a heatmap was returned for the all-zero image and its
\* upsampled map was constant (max = min).
C1_Witness ==
    \E s \in Sessions :
        /\ sess[s].heatmap.ok
        /\ sess[s].input_tensor = Transform("black")
        /\ \A v \in Entries(sess[s].heatmap) : v.span = 0 /\ v.num = 0

\* C2: when a call computes its weights and raw map, the stored activations
\* and the stored gradients both belong to that call's own forward pass.
C2_SnapshotsAreOwn ==
    \A s \in Sessions :
        sess[s].pc = "call95" =>
            /\ Explainer(s).activations.pass = sess[s].graph.pass
            /\ Explainer(s).gradients.pass = sess[s].graph.pass

\* C2 witness: in the second script execution a call is about to compute on
\* an explainer that has seen a prediction pass and an earlier call (its
\* own pass is at least the third evaluation since its construction).
C2_Witness ==
    \E s \in Sessions :
        /\ sess[s].pc = "call95"
        /\ nruns >= 2
        /\ sess[s].graph.pass >= Explainer(s).regAt + 3
        /\ Explainer(s).gradients.pass = sess[s].graph.pass

C4_FailsWithoutGradient ==
    \A s \in Sessions :
        (sess[s].pc = "end" /\ sess[s].target # NoClass /\ ~sess[s].fired) =>
            (~sess[s].heatmap.ok /\ sess[s].error # "")

\* C5: without a usable parameter file load_model returns None after
\* reporting; no explainer is built, no pass runs, no heatmap is computed,
\* nothing raises, and a selected image is displayed.
C5_ModelUnavailable ==
    fileState # "ok" =>
        /\ explainers = << >> /\ fwdHooks = << >> /\ bwdHooks = << >>
        /\ npass = 0
        /\ \A s \in Sessions :
            /\ sess[s].pc \notin {"idle", "load"} =>
                   (~sess[s].model /\ sess[s].reported)
            /\ sess[s].grad_cam = 0
            /\ sess[s].pc \notin InFlight
            /\ ~sess[s].heatmap.ok
            /\ sess[s].error = ""
            /\ (sess[s].pc \in {"guard", "end"} /\ sess[s].image # "") =>
                   sess[s].shown

\* C5 witness: the file is absent, an image was selected and displayed and
\* the script ran to its end.
C5_Witness ==
    /\ fileState = "absent"
    /\ \E s \in Sessions :
        sess[s].pc = "end" /\ sess[s].image # "" /\ sess[s].shown

\* C6: with class_idx unset the back-propagated class is the lowest index
\* holding the maximum score of the call's own forward pass; with class_idx
\* given it is that class; the stored gradient is that class's gradient.
C6_BackpropagatedClass ==
    \A s \in Sessions :
        sess[s].pc = "call95" =>
            LET out == sess[s].output
                k == sess[s].target
            IN  /\ out = ModelOutput(sess[s].input_tensor)
                /\ k \in Classes
                /\ sess[s].class_idx = NoClass =>
                       /\ \A j \in Classes : out[j] <= out[k]
                       /\ \A j \in Classes : j < k => out[j] < out[k]
                /\ sess[s].class_idx # NoClass => k = sess[s].class_idx
                /\ Explainer(s).gradients.val =
                       GradOutput(LayerOutput(sess[s].input_tensor), k).val

\* C6 witness: class_idx is unset, two classes tie for the maximum, and the
\* lower of them was back-propagated.
C6_Witness ==
    \E s \in Sessions :
        /\ sess[s].pc = "call95"
        /\ sess[s].class_idx = NoClass
        /\ \E j \in Classes :
            j > sess[s].target /\ sess[s].output[j] = sess[s].output[sess[s].target]

\* C7: a returned heatmap is the one a fresh explainer computes for the
\* same input and class, whatever was evaluated before; so two calls with
\* the same input and class return the same heatmap.
C7_Deterministic ==
    \A s \in Sessions :
        sess[s].heatmap.ok =>
            sess[s].heatmap = FreshMap(sess[s].input_tensor, sess[s].target)

\* C7 witness: a heatmap was returned by a call on a tensor that carried an
\* accumulated gradient, on an explainer that served other calls before.
C7_Witness ==
    \E s \in Sessions :
        /\ sess[s].heatmap.ok
        /\ sess[s].xgrad >= 2
        /\ ncalls >= 2
        /\ sess[s].target # sess[s].pred_idx

\* C8: the returned heatmap is a 2D array of the input's height and width.
C8_ShapeEqualsInput ==
    \A s \in Sessions :
        sess[s].heatmap.ok =>
            sess[s].heatmap.shape =
                <<Rows(sess[s].input_tensor), Cols(sess[s].input_tensor)>>

\* C9: after any forward evaluation every installed explainer stores the
\* target layer's output of the most recent forward evaluation, and stored
\* gradients change only in a step that runs a backward pass.
C9_HooksAlwaysFire ==
    /\ [](\A i \in DOMAIN explainers :
            explainers[i].regAt < npass => explainers[i].activations = lastOut)
    /\ [][\A i \in DOMAIN explainers :
            explainers'[i].gradients # explainers[i].gradients =>
                \E s \in Sessions :
                    sess[s].pc = "call92" /\ sess'[s].pc = "call95"]_vars

\* C9 witness: the most recent forward evaluation was the script's own
\* prediction pass, and two explainers hold its layer output.
C9_Witness ==
    /\ Len(explainers) >= 2
    /\ \E s \in Sessions :
        /\ sess[s].pc = "call87"
        /\ sess[s].graph.pass = 0
        /\ lastOut.val = LayerOutput(sess[s].input_tensor)
    /\ \A i \in DOMAIN explainers :
        explainers[i].activations.pass = npass

\* the executions that have passed lines 109-111
Constructed ==
    nruns - Cardinality({s \in Sessions : sess[s].pc \in {"load", "construct"}})

\* C10: after n executions with a model available the layer carries n
\* forward and n backward hooks, one per explainer; the number never
\* decreases; a forward evaluation overwrites the activations of all of them.
C10_HooksAccumulate ==
    /\ [](/\ Len(fwdHooks) = (IF fileState = "ok" THEN Constructed ELSE 0)
          /\ Len(bwdHooks) = Len(fwdHooks)
          /\ Len(explainers) = Len(fwdHooks)
          /\ \A i \in DOMAIN fwdHooks : fwdHooks[i] = i /\ bwdHooks[i] = i
          /\ \A i \in DOMAIN explainers :
                explainers[i].regAt < npass =>
                    explainers[i].activations.pass = npass)
    /\ [][Len(fwdHooks') >= Len(fwdHooks) /\ Len(bwdHooks') >= Len(bwdHooks)]_vars

\* C10 witness: after two executions two explainers are hooked to the layer
\* and one forward evaluation has overwritten the activations of both.
C10_Witness ==
    /\ nruns = 2
    /\ Len(fwdHooks) = 2
    /\ Len(bwdHooks) = 2
    /\ npass >= 2
    /\ \A i \in DOMAIN explainers : explainers[i].activations.pass = npass

=============================================================================
